---- MODULE Spec2Model ----
(***************************************************************************)
(* Model of dev/assets/python/libs/optimize_images_paths.py                *)
(* (class ImageOptimizer): variant resolution, priority ranking and the    *)
(* three source rewriters (HTML/PHP, Pug, SCSS/CSS).                        *)
(*                                                                         *)
(* Source texts, references and paths are strings; the string operators    *)
(* below compute what the Python string methods and regular expressions    *)
(* compute, character by character.                                        *)
(***************************************************************************)
EXTENDS Integers, Sequences, FiniteSets, TLC

(***************************************************************************)
(* Bounds                                                                  *)
(***************************************************************************)
\* file sizes 1..MaxSize (plus the two sizes of the spec's scenario A)
MaxSize == 2
\* number of runs of the engine over the same sources
MaxRuns == 2

\* the number of references ranked one after the other
MaxRanks == 3

\* the number of process_*_file calls that may fail in one behaviour
MaxFaults == 1

(***************************************************************************)
(* Python str methods                                                      *)
(***************************************************************************)
\* F applied to the value v: "name = v" followed by the statements F
With(v, F(_)) == F(v)

Char(s, i) == SubSeq(s, i, i)

\* s[i-1:] of Python for a 1-based i
From(s, i) == SubSeq(s, i, Len(s))

\* s.startswith(p, i-1)
StartsAt(s, i, p) == i + Len(p) - 1 <= Len(s) /\ SubSeq(s, i, i + Len(p) - 1) = p

endswith(s, p) == Len(p) <= Len(s) /\ SubSeq(s, Len(s) - Len(p) + 1, Len(s)) = p

\* the least position of a set of positions, 0 if there is none
Least(S) == IF S = {} THEN 0 ELSE CHOOSE k \in S : \A j \in S : k <= j

\* s.find(p, i-1) + 1, 0 when p does not occur at or after position i
FindFrom(s, p, i) ==
    Least({k \in i..(Len(s) - Len(p) + 1) :
              Char(s, k) = Char(p, 1) /\ SubSeq(s, k, k + Len(p) - 1) = p})

\* p in s
Contains(s, p) == FindFrom(s, p, 1) > 0

\* s.replace(old, new): every non-overlapping occurrence, left to right
RECURSIVE replace(_, _, _)
replace(s, old, new) ==
    LET k == FindFrom(s, old, 1)
    IN  IF old = "" \/ k = 0 THEN s
        ELSE SubSeq(s, 1, k - 1) \o new \o replace(From(s, k + Len(old)), old, new)

\* s.lstrip(chars): drops every leading character that is in chars
RECURSIVE lstrip(_, _)
lstrip(s, chars) ==
    IF s # "" /\ Char(s, 1) \in chars THEN lstrip(Tail(s), chars) ELSE s

\* s.rstrip(chars)
RECURSIVE rstrip(_, _)
rstrip(s, chars) ==
    IF s # "" /\ Char(s, Len(s)) \in chars THEN rstrip(SubSeq(s, 1, Len(s) - 1), chars) ELSE s

\* the characters str.strip() / lstrip() / rstrip() drop when called without argument
Whitespace == {" ", "\t", "\n", "\r"}

\* the ASCII letters that str.lower() changes, with what it changes them to
ToLower ==
    [c \in {"A","B","C","D","E","F","G","H","I","J","K","L","M",
            "N","O","P","Q","R","S","T","U","V","W","X","Y","Z"} |->
        CASE c = "A" -> "a" [] c = "B" -> "b" [] c = "C" -> "c" [] c = "D" -> "d"
          [] c = "E" -> "e" [] c = "F" -> "f" [] c = "G" -> "g" [] c = "H" -> "h"
          [] c = "I" -> "i" [] c = "J" -> "j" [] c = "K" -> "k" [] c = "L" -> "l"
          [] c = "M" -> "m" [] c = "N" -> "n" [] c = "O" -> "o" [] c = "P" -> "p"
          [] c = "Q" -> "q" [] c = "R" -> "r" [] c = "S" -> "s" [] c = "T" -> "t"
          [] c = "U" -> "u" [] c = "V" -> "v" [] c = "W" -> "w" [] c = "X" -> "x"
          [] c = "Y" -> "y" [] c = "Z" -> "z"]

LowerChar(c) == IF c \in DOMAIN ToLower THEN ToLower[c] ELSE c

\* s.lower()
RECURSIVE lower(_)
lower(s) == IF s = "" THEN "" ELSE LowerChar(Char(s, 1)) \o lower(Tail(s))

\* s.split(sep): the pieces between the occurrences of sep (at least one piece)
RECURSIVE split(_, _)
split(s, sep) ==
    LET k == FindFrom(s, sep, 1)
    IN  IF k = 0 THEN <<s>>
        ELSE <<SubSeq(s, 1, k - 1)>> \o split(From(s, k + Len(sep)), sep)

\* sep.join(pieces)
RECURSIVE join(_, _)
join(pieces, sep) ==
    IF pieces = <<>> THEN ""
    ELSE IF Len(pieces) = 1 THEN pieces[1]
    ELSE pieces[1] \o sep \o join(Tail(pieces), sep)

\* the decimal digits "0".."9", at positions 1..10
Digits == <<"0", "1", "2", "3", "4", "5", "6", "7", "8", "9">>

\* str(n) of a natural number
RECURSIVE str(_)
str(n) == IF n < 10 THEN Digits[n + 1] ELSE str(n \div 10) \o Digits[(n % 10) + 1]

\* int(s) of a string of decimal digits
RECURSIVE int(_)
int(s) ==
    IF s = "" THEN 0
    ELSE 10 * int(SubSeq(s, 1, Len(s) - 1))
         + (CHOOSE d \in 0..9 : Digits[d + 1] = Char(s, Len(s)))

(***************************************************************************)
(* pathlib.PurePosixPath of a relative path                                *)
(***************************************************************************)
\* the components of a path: empty and "." components are dropped
PathParts(p) == SelectSeq(split(p, "/"), LAMBDA c : c # "" /\ c # ".")

\* str(Path(...)) of a list of components
PathStr(parts) == IF parts = <<>> THEN "." ELSE join(parts, "/")

\* Path(p).parent, as its components
ParentParts(p) ==
    LET parts == PathParts(p)
    IN  IF parts = <<>> THEN <<>> ELSE SubSeq(parts, 1, Len(parts) - 1)

\* Path(p).name
PathName(p) ==
    LET parts == PathParts(p)
    IN  IF parts = <<>> THEN "" ELSE parts[Len(parts)]

\* name.rfind('.') + 1
RECURSIVE RFindDot(_, _)
RFindDot(name, i) ==
    IF i = 0 THEN 0
    ELSE IF Char(name, i) = "." THEN i
    ELSE RFindDot(name, i - 1)

\* Path(p).suffix: from the last dot of the name, unless that dot is the
\* first or the last character of the name
PathSuffix(p) ==
    With(PathName(p), LAMBDA name :
      LET i == RFindDot(name, Len(name))
      IN  IF 1 < i /\ i < Len(name) THEN From(name, i) ELSE "")

\* Path(p).stem
PathStem(p) ==
    With(PathName(p), LAMBDA name :
      LET i == RFindDot(name, Len(name))
      IN  IF 1 < i /\ i < Len(name) THEN SubSeq(name, 1, i - 1) ELSE name)

(***************************************************************************)
(* The image files on disk                                                 *)
(*                                                                         *)
(* A file system is a function from the paths of the existing files,       *)
(* relative to <project_root>/dev, to their sizes in bytes.                *)
(***************************************************************************)
\* float('inf')
Inf == -1

\* a < b on sizes, with float('inf') above every integer
SizeLess(a, b) == a # Inf /\ (b = Inf \/ a < b)

\* Path.exists() of <project_root>/dev/<p>
Exists(fsys, p) == PathStr(PathParts(p)) \in DOMAIN fsys

get_file_size(fsys, p) ==
    IF Exists(fsys, p) THEN fsys[PathStr(PathParts(p))] ELSE Inf

\* the characters of image_path.lstrip('./')
DotSlash == {".", "/"}

\* the two sibling formats, in the order of the loop over ['webp', 'avif']
SiblingFormats == <<"webp", "avif">>

\* SiblingVariant probing <parent>/<stem>.<format> instead of
\* <parent>/<format>/<stem>.<format>
SiblingVariantFlat(fsys, clean_path, format_name) ==
    With(PathStr(ParentParts(clean_path)
                 \o <<PathStem(clean_path) \o "." \o format_name>>),
         LAMBDA format_file :
           IF Exists(fsys, format_file)
           THEN <<[name |-> format_name,
                   path |-> replace(format_file, "\\", "/"),
                   size |-> get_file_size(fsys, format_file)]>>
           ELSE <<>>)

\* the entry of one sibling format: a one-element list, or nothing when the
\* sibling file does not exist
SiblingVariant(fsys, clean_path, format_name) ==
    With(PathStr(ParentParts(clean_path)
                 \o <<format_name, PathStem(clean_path) \o "." \o format_name>>),
         LAMBDA format_file :
           IF Exists(fsys, format_file)
           THEN <<[name |-> format_name,
                   path |-> replace(format_file, "\\", "/"),
                   size |-> get_file_size(fsys, format_file)]>>
           ELSE <<>>)

\* find_image_variants without the test that the original exists
find_image_variantsNoCheck(fsys, image_path) ==
    LET clean_path == lstrip(image_path, DotSlash)
    IN  <<[name |-> "original", path |-> image_path,
           size |-> get_file_size(fsys, clean_path)]>>
        \o SiblingVariant(fsys, clean_path, SiblingFormats[1])
        \o SiblingVariant(fsys, clean_path, SiblingFormats[2])

\* The dict {format: (path, size)} as the list of its items in insertion
\* order: original, then webp, then avif.
find_image_variants(fsys, image_path) ==
    LET clean_path == lstrip(image_path, DotSlash)
    IN  IF ~Exists(fsys, clean_path) THEN <<>>
        ELSE <<[name |-> "original", path |-> image_path,
                size |-> get_file_size(fsys, clean_path)]>>
             \o SiblingVariant(fsys, clean_path, SiblingFormats[1])
             \o SiblingVariant(fsys, clean_path, SiblingFormats[2])

(***************************************************************************)
(* sorted() / list.sort(): a stable sort                                   *)
(***************************************************************************)
\* Python's order on the sort keys used here: a key is a pair
\* <<flag, size>>, compared as a tuple (False < True, flag 0 is False)
KeyLess(x, y) == x[1] < y[1] \/ (x[1] = y[1] /\ SizeLess(x[2], y[2]))

\* x put after every element whose key is not greater than its key
RECURSIVE InsertSorted(_, _)
InsertSorted(x, sorted) ==
    IF sorted = <<>> THEN <<x>>
    ELSE IF KeyLess(x.key, Head(sorted).key) THEN <<x>> \o sorted
    ELSE <<Head(sorted)>> \o InsertSorted(x, Tail(sorted))

\* the list of [key, item] pairs in ascending order of key, equal keys in
\* their original order
RECURSIVE StableSort(_)
StableSort(seq) ==
    IF seq = <<>> THEN <<>>
    ELSE InsertSorted(seq[Len(seq)], StableSort(SubSeq(seq, 1, Len(seq) - 1)))

\* sorted(items, key=...), keys[k] being the key of items[k]
SortedBy(items, keys) ==
    LET keyed  == [k \in 1..Len(items) |-> [key |-> keys[k], item |-> items[k]]]
        sorted == StableSort(keyed)
    IN  [k \in 1..Len(items) |-> sorted[k].item]

(***************************************************************************)
(* get_optimal_image_info                                                  *)
(***************************************************************************)
\* VariantKey sorting on the path (x[1][0]) instead of the size
VariantKeyByPath(x) == <<0, Len(x.path)>>

\* key=lambda x: x[1][1]
VariantKey(x) == <<0, x.size>>

\* FormatKey without the size
FormatKeyExistsOnly(x) == <<IF x.exists THEN 0 ELSE 1, 0>>

\* key=lambda x: (not x['exists'], x['size'])
FormatKey(x) == <<IF x.exists THEN 0 ELSE 1, x.size>>

\* HasFormat that never finds the format
HasFormatNever(variants, format_name) == FALSE

HasFormat(variants, format_name) ==
    \E k \in 1..Len(variants) : variants[k].name = format_name

\* PotentialFormat marking the synthesized entry as existing
PotentialFormatExisting(variants, original_path, format_name) ==
    IF \E k \in 1..Len(variants) : variants[k].name = format_name THEN <<>>
    ELSE <<[name |-> format_name,
            path |-> replace(PathStr(ParentParts(original_path)
                               \o <<format_name, PathStem(original_path) \o "." \o format_name>>),
                             "\\", "/"),
            size |-> Inf,
            exists |-> TRUE]>>

\* the synthesized entry of a format that is not among the variants
PotentialFormat(variants, original_path, format_name) ==
    IF HasFormat(variants, format_name) THEN <<>>
    ELSE <<[name |-> format_name,
            path |-> replace(PathStr(ParentParts(original_path)
                               \o <<format_name, PathStem(original_path) \o "." \o format_name>>),
                             "\\", "/"),
            size |-> Inf,
            exists |-> FALSE]>>

\* AllFormats appending the synthesized avif entry before the webp one
AllFormatsAvifFirst(variants, original_path) ==
    With(   [k \in 1..Len(variants) |->
                [name |-> variants[k].name, path |-> variants[k].path,
                 size |-> variants[k].size, exists |-> TRUE]]
            \o (IF \E k \in 1..Len(variants) : variants[k].name = "avif" THEN <<>>
                ELSE <<[name |-> "avif",
                        path |-> PathStr(ParentParts(original_path)
                                   \o <<"avif", PathStem(original_path) \o ".avif">>),
                        size |-> Inf, exists |-> FALSE]>>)
            \o (IF \E k \in 1..Len(variants) : variants[k].name = "webp" THEN <<>>
                ELSE <<[name |-> "webp",
                        path |-> PathStr(ParentParts(original_path)
                                   \o <<"webp", PathStem(original_path) \o ".webp">>),
                        size |-> Inf, exists |-> FALSE]>>),
         LAMBDA all_formats :
           SortedBy(all_formats,
                    [k \in 1..Len(all_formats) |->
                        <<IF all_formats[k].exists THEN 0 ELSE 1, all_formats[k].size>>]))

\* all_formats after all_formats.sort(...)
AllFormats(variants, original_path) ==
    With(   [k \in 1..Len(variants) |->
                [name |-> variants[k].name, path |-> variants[k].path,
                 size |-> variants[k].size, exists |-> TRUE]]
            \o PotentialFormat(variants, original_path, "webp")
            \o PotentialFormat(variants, original_path, "avif"),
         LAMBDA all_formats :
           SortedBy(all_formats,
                    [k \in 1..Len(all_formats) |-> FormatKey(all_formats[k])]))

\* get_image_hash: MD5 of the normalized path, taken as collision free
get_image_hash(image_path) == "md5:" \o replace(lstrip(image_path, DotSlash), "\\", "/")

\* the items of result['data_attributes'], in insertion order
DataAttributes(all_formats, original_ext) ==
    LET RECURSIVE Items(_)
        Items(k) ==
            IF k > Len(all_formats) THEN <<>>
            ELSE << <<"data-" \o all_formats[k].name \o "-src", all_formats[k].path>>,
                    <<"data-" \o all_formats[k].name \o "-priority", str(k)>> >>
                 \o Items(k + 1)
    IN  << <<"data-original-ext", original_ext>> >> \o Items(1)

\* json_formats, as the list of its items: the entry of all_formats[k] has
\* priority k
JsonFormats(all_formats) ==
    [k \in 1..Len(all_formats) |->
        [name |-> all_formats[k].name,
         src |-> all_formats[k].path,
         priority |-> k,
         exists |-> all_formats[k].exists,
         size |-> IF all_formats[k].exists THEN all_formats[k].size ELSE Inf,
         size_is_null |-> ~all_formats[k].exists]]

\* The empty dict {}
NoInfo == [empty |-> TRUE]

\* variants.get('original', ['', 0])[0]
OriginalPath(variants) ==
    IF \E k \in 1..Len(variants) : variants[k].name = "original"
    THEN variants[CHOOSE k \in 1..Len(variants) : variants[k].name = "original"].path
    ELSE ""

\* path_parts.suffix.lstrip('.')
original_ext(original_path) == lstrip(PathSuffix(original_path), {"."})

\* The result dict. variants always holds 'original' when it is not empty
\* (find_image_variants returns before adding anything else), so
\* original_path is the path of the first item.
get_optimal_image_info(variants, image_path) ==
    IF variants = <<>> THEN NoInfo
    ELSE
      LET sorted_variants == SortedBy(variants,
                                      [k \in 1..Len(variants) |-> VariantKey(variants[k])])
          main_src        == sorted_variants[1].path
          original_path   == OriginalPath(variants)
      IN  IF original_path = ""
          THEN [empty |-> FALSE, main_src |-> main_src, data_attributes |-> <<>>,
                has_json |-> FALSE, formats |-> <<>>]
          ELSE
            With(AllFormats(variants, original_path), LAMBDA all_formats :
              [empty |-> FALSE,
               main_src |-> main_src,
               data_attributes |-> DataAttributes(all_formats, original_ext(original_path)),
               has_json |-> TRUE,
               hash |-> get_image_hash(original_path),
               original_path |-> replace(original_path, "\\", "/"),
               original_ext |-> original_ext(original_path),
               optimal_src |-> replace(main_src, "\\", "/"),
               formats |-> JsonFormats(all_formats)])

(***************************************************************************)
(* The pieces shared by the three regular expressions                      *)
(***************************************************************************)
\* ["\']
Quotes == {"\"", "'"}

\* (jpg|jpeg|png|gif|webp|avif|bmp|tiff)
RasterExtensions == <<"jpg", "jpeg", "png", "gif", "webp", "avif", "bmp", "tiff">>

\* re.IGNORECASE match of an ASCII literal p (in lower case) at position i
StartsAtCI(s, i, p) ==
    /\ i + Len(p) - 1 <= Len(s)
    /\ LowerChar(Char(s, i)) = Char(p, 1)
    /\ lower(SubSeq(s, i, i + Len(p) - 1)) = p

\* the first position >= i of a character of chars, 0 if there is none
FirstOf(s, chars, i) == Least({k \in i..Len(s) : Char(s, k) \in chars})

\* the first position >= i of a character not in chars, Len(s) + 1 if none
FirstNotOf(s, chars, i) ==
    LET k == Least({j \in i..Len(s) : Char(s, j) \notin chars})
    IN  IF k = 0 THEN Len(s) + 1 ELSE k

\* X+\.(jpg|...|tiff) matches the whole of path, for a class X that holds
\* every character of path: at least one character, a dot, an extension
IsRasterPath(path) ==
    \E k \in 1..Len(RasterExtensions) :
        /\ Len(path) > Len(RasterExtensions[k]) + 1
        /\ lower(SubSeq(path, Len(path) - Len(RasterExtensions[k]), Len(path)))
              = "." \o RasterExtensions[k]

NoMatch == [ok |-> FALSE]

\* src=["\']([^"\']+\.(jpg|...))["\'] matched at position q: the quoted
\* value runs to the first quote character after the opening one
SrcAttrAt(s, q) ==
    IF ~(StartsAtCI(s, q, "src=") /\ q + 4 <= Len(s) /\ Char(s, q + 4) \in Quotes)
    THEN NoMatch
    ELSE LET r == FirstOf(s, Quotes, q + 5)
         IN  IF r = 0 \/ ~IsRasterPath(SubSeq(s, q + 5, r - 1)) THEN NoMatch
             ELSE [ok |-> TRUE, start |-> q, end |-> r,
                   path |-> SubSeq(s, q + 5, r - 1)]

(***************************************************************************)
(* process_html_php_file                                                   *)
(***************************************************************************)
\* img_pattern matched at position p. group(1) is lazy and holds no '>':
\* the src attribute is the first one between "<img" and the next '>' that
\* the rest of the pattern matches; group(4) ends at the first '>' after it.
ImgMatchAt(s, p) ==
    IF ~StartsAtCI(s, p, "<img") THEN NoMatch
    ELSE
      With(Least({k \in (p + 4)..FirstOf(s, {">"}, p + 4) :
                     With(SrcAttrAt(s, k), LAMBDA a :
                       a.ok /\ FirstOf(s, {">"}, a.end + 1) > 0)}),
           LAMBDA q :
             IF q = 0 THEN NoMatch
             ELSE With(SrcAttrAt(s, q), LAMBDA a :
                    LET e == FirstOf(s, {">"}, a.end + 1)
                    IN  [ok |-> TRUE, start |-> p, end |-> e,
                         group0 |-> SubSeq(s, p, e),
                         before_src |-> SubSeq(s, p + 4, q - 1),
                         image_path |-> a.path,
                         after_src |-> SubSeq(s, a.end + 1, e - 1)]))

\* the leftmost match of img_pattern that starts at or after position i
FindImg(s, i) ==
    With(Least({k \in i..Len(s) : ImgMatchAt(s, k).ok}), LAMBDA p :
      IF p = 0 THEN NoMatch ELSE ImgMatchAt(s, p))

\* \s+data-(webp|avif|original)-(src|priority|ext)=["\'][^"\']*["\'] matched
\* at position i: the position after the match, 0 if there is no match
DataAttrMatchEnd(s, i) ==
    LET d == FirstNotOf(s, Whitespace, i)
        Names == {f \o "-" \o a : f \in {"webp", "avif", "original"},
                                  a \in {"src", "priority", "ext"}}
        N == {n \in Names : StartsAt(s, d, "data-" \o n \o "=")}
    IN  IF d = i \/ N = {} THEN 0
        ELSE LET n == CHOOSE x \in N : TRUE
                 o == d + Len("data-" \o n \o "=")
             IN  IF o > Len(s) \/ Char(s, o) \notin Quotes THEN 0
                 ELSE LET c == FirstOf(s, Quotes, o + 1)
                      IN  IF c = 0 THEN 0 ELSE c + 1

\* re.sub(r'\s+data-(webp|avif|original)-(src|priority|ext)=...', '', s):
\* the leftmost match is cut out, then the rest is searched
RECURSIVE RemoveDataAttrs(_)
RemoveDataAttrs(s) ==
    With(Least({k \in 1..Len(s) : DataAttrMatchEnd(s, k) > 0}), LAMBDA i :
      IF i = 0 THEN s
      ELSE SubSeq(s, 1, i - 1) \o RemoveDataAttrs(From(s, DataAttrMatchEnd(s, i))))

should_add_data_attributes(save_mode) == save_mode \in {"data_attributes", "both"}

should_save_json(save_mode) == save_mode \in {"json", "both"}

\* HasMarker looking for the avif marker alone
HasMarkerAvifOnly(span) == Contains(span, "data-avif-src=")

\* 'data-webp-src=' in span or 'data-avif-src=' in span or 'data-original-src=' in span
HasMarker(span) ==
    \/ Contains(span, "data-webp-src=")
    \/ Contains(span, "data-avif-src=")
    \/ Contains(span, "data-original-src=")

\* data_attrs.get(key, default) on the list of items
DictGet(items, key, default) ==
    IF \E k \in 1..Len(items) : items[k][1] = key
    THEN items[CHOOSE k \in 1..Len(items) : items[k][1] = key][2]
    ELSE default

\* sort_attrs(item), with data_attrs the dict being sorted
sort_attrs(item, data_attrs) ==
    IF Contains(item[1], "-priority") THEN <<int(item[2]), 1>>
    ELSE IF Contains(item[1], "-src")
         THEN LET format_name == replace(replace(item[1], "data-", ""), "-src", "")
              IN  <<int(DictGet(data_attrs, "data-" \o format_name \o "-priority", "999")), 0>>
         ELSE <<0, 2>>

\* sorted(data_attrs.items(), key=sort_attrs)
SortedAttrs(data_attrs) ==
    SortedBy(data_attrs, [k \in 1..Len(data_attrs) |-> sort_attrs(data_attrs[k], data_attrs)])

\* ' ' * n
RECURSIVE Spaces(_)
Spaces(n) == IF n <= 0 THEN "" ELSE " " \o Spaces(n - 1)

\* images_data[hash] = json_data, when the info carries json_data
Record(data, info) ==
    IF info.empty \/ ~info.has_json THEN data
    ELSE [h \in DOMAIN data \cup {info.hash} |->
             IF h = info.hash
             THEN [hash |-> info.hash, original_path |-> info.original_path,
                   original_ext |-> info.original_ext, optimal_src |-> info.optimal_src,
                   formats |-> info.formats]
             ELSE data[h]]

\* the '\n<attr_indent>name="value"' lines of a list of attribute items
RECURSIVE AttrLinesHtml(_, _)
AttrLinesHtml(items, attr_indent) ==
    IF items = <<>> THEN ""
    ELSE "\n" \o attr_indent \o items[1][1] \o "=\"" \o replace(items[1][2], "\\", "/") \o "\""
         \o AttrLinesHtml(Tail(items), attr_indent)

\* content[:match.start()].split('\n')[-1]
LastLine(prefix) ==
    LET lines == split(prefix, "\n")
    IN  lines[Len(lines)]

\* replace_img(match): the replacement text, the accumulator afterwards and
\* the branch taken. content is the text the file was read with.
replace_img(content, m, fsys, save_mode, save_hash_in_attribute, data) ==
    IF endswith(lower(m.image_path), ".svg")
    THEN [text |-> m.group0, data |-> data, branch |-> "svg"]
    ELSE IF should_add_data_attributes(save_mode) /\ HasMarker(m.group0)
    THEN [text |-> m.group0, data |-> data, branch |-> "guard"]
    ELSE
      With(find_image_variants(fsys, m.image_path), LAMBDA variants :
        IF variants = <<>>
        THEN [text |-> m.group0, data |-> data, branch |-> "missing"]
        ELSE
          With(get_optimal_image_info(variants, m.image_path), LAMBDA info :
            IF info.empty
            THEN [text |-> m.group0, data |-> data, branch |-> "missing"]
            ELSE IF ~should_add_data_attributes(save_mode)
            THEN [text |-> replace(m.group0, m.image_path, info.main_src),
                  data |-> Record(data, info), branch |-> "src_only"]
            ELSE
              LET before_src   == RemoveDataAttrs(m.before_src)
                  after_src    == RemoveDataAttrs(m.after_src)
                  current_line == LastLine(SubSeq(content, 1, m.start - 1))
                  base_indent  == IF lstrip(current_line, Whitespace) = ""
                                  THEN Len(current_line) ELSE 0
                  attr_indent  == Spaces(base_indent + 4)
                  hash_attr    == IF should_save_json(save_mode) /\ save_hash_in_attribute
                                  THEN << <<"data-image-hash", info.hash>> >> ELSE <<>>
              IN  [text |-> "<img" \o before_src \o "src=\"" \o info.main_src \o "\""
                            \o after_src
                            \o AttrLinesHtml(hash_attr, attr_indent)
                            \o AttrLinesHtml(SortedAttrs(info.data_attributes), attr_indent)
                            \o ">",
                   data |-> Record(data, info), branch |-> "annotated"]))

\* re.sub(img_pattern, replace_img, content, flags=re.IGNORECASE) from
\* position i on: acc carries the text built so far, the accumulator and one
\* entry per match
RECURSIVE HtmlSub(_, _, _, _, _, _)
HtmlSub(content, i, fsys, save_mode, save_hash_in_attribute, acc) ==
    With(FindImg(content, i), LAMBDA m :
      IF ~m.ok
      THEN [acc EXCEPT !.out = @ \o From(content, i)]
      ELSE
        With(replace_img(content, m, fsys, save_mode, save_hash_in_attribute, acc.data),
             LAMBDA r :
               HtmlSub(content, m.end + 1, fsys, save_mode, save_hash_in_attribute,
                       [out  |-> acc.out \o SubSeq(content, i, m.start - 1) \o r.text,
                        data |-> r.data,
                        log  |-> Append(acc.log,
                                   [start |-> m.start, end |-> m.end,
                                    image_path |-> m.image_path,
                                    old |-> m.group0, new |-> r.text,
                                    branch |-> r.branch])])))

\* process_html_php_file without the file I/O: the new content, the
\* accumulator and the log of the matches
process_html_php(content, fsys, save_mode, save_hash_in_attribute, data) ==
    HtmlSub(content, 1, fsys, save_mode, save_hash_in_attribute,
            [out |-> "", data |-> data, log |-> <<>>])

(***************************************************************************)
(* process_pug_file                                                        *)
(***************************************************************************)
\* re.search(src_pattern, line, re.IGNORECASE): the leftmost match
SearchSrc(line) ==
    With(Least({k \in 1..Len(line) : SrcAttrAt(line, k).ok}), LAMBDA q :
      IF q = 0 THEN NoMatch ELSE SrcAttrAt(line, q))

\* the inner while loop from line j on: the index of the last line taken
\* into the block and the src match, if any. last is the index of the last
\* line taken so far.
RECURSIVE ScanBlock(_, _, _)
ScanBlock(lines, j, last) ==
    IF j > Len(lines) THEN [end |-> last, src_match |-> NoMatch]
    ELSE With(SearchSrc(lines[j]), LAMBDA src_match :
           IF src_match.ok THEN [end |-> j, src_match |-> src_match]
           ELSE IF Contains(lines[j], ")") THEN [end |-> j, src_match |-> NoMatch]
           ELSE ScanBlock(lines, j + 1, j))

\* LocateBlock giving as the end of a block of several lines the line
\* before its last line, so that the outer loop takes that line again
LocateBlockRescans(lines, i) ==
    With(SearchSrc(lines[i]), LAMBDA first :
      With(IF first.ok THEN [end |-> i, src_match |-> first]
           ELSE ScanBlock(lines, i + 1, i),
           LAMBDA scan :
             [end |-> IF scan.end > i THEN scan.end - 1 ELSE scan.end,
              src_match |-> scan.src_match,
              img_block_lines |-> SubSeq(lines, i, scan.end)]))

\* the lines i..end of the img block that opens at line i, and its src match
LocateBlock(lines, i) ==
    With(SearchSrc(lines[i]), LAMBDA first :
      With(IF first.ok THEN [end |-> i, src_match |-> first]
           ELSE ScanBlock(lines, i + 1, i),
           LAMBDA scan :
             [end |-> scan.end, src_match |-> scan.src_match,
              img_block_lines |-> SubSeq(lines, i, scan.end)]))

\* the '<attr_indent>name="value"' lines of a list of attribute items
AttrLinesPug(items, attr_indent) ==
    [k \in 1..Len(items) |->
        attr_indent \o items[k][1] \o "=\"" \o replace(items[k][2], "\\", "/") \o "\""]

\* the block with attrs_to_add put in place of the first ')' line's
\* delimiter: every ')' of that line is removed, the line is stripped on
\* the right, and the lines of the block after it are not kept
AddPugAttrs(img_block_lines, attrs_to_add) ==
    LET K == {k \in 1..Len(img_block_lines) : Contains(img_block_lines[k], ")")}
    IN  IF attrs_to_add = <<>> \/ K = {} THEN img_block_lines
        ELSE LET k == CHOOSE x \in K : \A y \in K : x <= y
                 base_indent == Len(img_block_lines[1])
                                - Len(lstrip(img_block_lines[1], Whitespace))
                 attr_indent == Spaces(base_indent + 12)
             IN  SubSeq(img_block_lines, 1, k - 1)
                 \o <<rstrip(replace(img_block_lines[k], ")", ""), Whitespace)>>
                 \o AttrLinesPug(attrs_to_add, attr_indent)
                 \o <<attr_indent \o ")">>

\* the body of "if src_match:" for one block: the lines that go to
\* new_lines, the accumulator afterwards and the branch taken
RewritePugBlock(blk, fsys, save_mode, save_hash_in_attribute, data) ==
    IF should_add_data_attributes(save_mode) /\ HasMarker(join(blk.img_block_lines, "\n"))
    THEN [lines |-> blk.img_block_lines, data |-> data, branch |-> "guard"]
    ELSE IF endswith(lower(blk.src_match.path), ".svg")
    THEN [lines |-> blk.img_block_lines, data |-> data, branch |-> "svg"]
    ELSE
      With(find_image_variants(fsys, blk.src_match.path), LAMBDA variants :
        IF variants = <<>>
        THEN [lines |-> blk.img_block_lines, data |-> data, branch |-> "missing"]
        ELSE
          With(get_optimal_image_info(variants, blk.src_match.path), LAMBDA info :
            IF info.empty
            THEN [lines |-> blk.img_block_lines, data |-> data, branch |-> "missing"]
            ELSE
              With([k \in 1..Len(blk.img_block_lines) |->
                       replace(blk.img_block_lines[k], blk.src_match.path, info.main_src)],
                   LAMBDA replaced :
                     IF /\ ~should_add_data_attributes(save_mode)
                        /\ ~should_save_json(save_mode)
                     THEN [lines |-> replaced, data |-> Record(data, info),
                           branch |-> "src_only"]
                     ELSE
                       With(AddPugAttrs(replaced,
                                (IF should_save_json(save_mode) /\ save_hash_in_attribute
                                 THEN << <<"data-image-hash", info.hash>> >> ELSE <<>>)
                                \o (IF should_add_data_attributes(save_mode)
                                    THEN SortedAttrs(info.data_attributes) ELSE <<>>)),
                            LAMBDA annotated :
                              [lines |-> annotated,
                               data |-> Record(data, info),
                               branch |-> IF annotated = replaced
                                          THEN "src_only" ELSE "annotated"]))))

\* the outer while loop from line i on: acc carries new_lines, the
\* accumulator and one entry per step of the loop
RECURSIVE PugLoop(_, _, _, _, _, _)
PugLoop(lines, i, fsys, save_mode, save_hash_in_attribute, acc) ==
    IF i > Len(lines) THEN acc
    ELSE IF ~Contains(lines[i], "img(")
    THEN PugLoop(lines, i + 1, fsys, save_mode, save_hash_in_attribute,
                 [acc EXCEPT !.new_lines = Append(@, lines[i]),
                             !.log = Append(@, [first |-> i, last |-> i, is_block |-> FALSE,
                                                has_src |-> FALSE, image_path |-> "",
                                                old |-> <<lines[i]>>, new |-> <<lines[i]>>,
                                                branch |-> "plain"])])
    ELSE
      With(LocateBlock(lines, i), LAMBDA blk :
        With(IF blk.src_match.ok
             THEN RewritePugBlock(blk, fsys, save_mode, save_hash_in_attribute, acc.data)
             ELSE [lines |-> blk.img_block_lines, data |-> acc.data, branch |-> "no_src"],
             LAMBDA r :
               PugLoop(lines, blk.end + 1, fsys, save_mode, save_hash_in_attribute,
                       [new_lines |-> acc.new_lines \o r.lines,
                        data |-> r.data,
                        log  |-> Append(acc.log,
                                   [first |-> i, last |-> blk.end, is_block |-> TRUE,
                                    has_src |-> blk.src_match.ok,
                                    image_path |-> IF blk.src_match.ok
                                                   THEN blk.src_match.path ELSE "",
                                    old |-> blk.img_block_lines, new |-> r.lines,
                                    branch |-> r.branch])])))

\* process_pug_file without the file I/O
process_pug(content, fsys, save_mode, save_hash_in_attribute, data) ==
    With(PugLoop(split(content, "\n"), 1, fsys, save_mode, save_hash_in_attribute,
                 [new_lines |-> <<>>, data |-> data, log |-> <<>>]),
         LAMBDA r : [out |-> join(r.new_lines, "\n"), data |-> r.data, log |-> r.log])

(***************************************************************************)
(* process_scss_css_file                                                   *)
(***************************************************************************)
\* the characters [^"\'()] excludes
UrlStops == {"\"", "'", "(", ")"}

\* url_pattern matched at position p: after an optional quote the path is
\* the whole run of characters up to the next quote or parenthesis, and it
\* is followed by an optional quote and ')'
UrlMatchAt(s, p) ==
    IF ~StartsAtCI(s, p, "url(") THEN NoMatch
    ELSE
      LET a == IF p + 4 <= Len(s) /\ Char(s, p + 4) \in Quotes THEN p + 5 ELSE p + 4
          b == FirstOf(s, UrlStops, a)
          c == IF b > 0 /\ Char(s, b) \in Quotes THEN b + 1 ELSE b
      IN  IF b = 0 \/ c > Len(s) \/ Char(s, c) # ")" \/ ~IsRasterPath(SubSeq(s, a, b - 1))
          THEN NoMatch
          ELSE [ok |-> TRUE, start |-> p, end |-> c,
                group0 |-> SubSeq(s, p, c), image_path |-> SubSeq(s, a, b - 1)]

\* the leftmost match of url_pattern that starts at or after position i
FindUrl(s, i) ==
    With(Least({k \in i..Len(s) : UrlMatchAt(s, k).ok}), LAMBDA p :
      IF p = 0 THEN NoMatch ELSE UrlMatchAt(s, p))

\* replace_url(match)
replace_url(m, fsys, data) ==
    IF endswith(lower(m.image_path), ".svg")
    THEN [text |-> m.group0, data |-> data, branch |-> "svg"]
    ELSE
      With(find_image_variants(fsys, m.image_path), LAMBDA variants :
        IF variants = <<>>
        THEN [text |-> m.group0, data |-> data, branch |-> "missing"]
        ELSE
          With(get_optimal_image_info(variants, m.image_path), LAMBDA info :
            IF info.empty
            THEN [text |-> m.group0, data |-> data, branch |-> "missing"]
            ELSE [text |-> replace(m.group0, m.image_path, info.main_src),
                  data |-> Record(data, info), branch |-> "src_only"]))

\* re.sub(url_pattern, replace_url, content, flags=re.IGNORECASE) from
\* position i on
RECURSIVE UrlSub(_, _, _, _)
UrlSub(content, i, fsys, acc) ==
    With(FindUrl(content, i), LAMBDA m :
      IF ~m.ok
      THEN [acc EXCEPT !.out = @ \o From(content, i)]
      ELSE
        With(replace_url(m, fsys, acc.data), LAMBDA r :
          UrlSub(content, m.end + 1, fsys,
                 [out  |-> acc.out \o SubSeq(content, i, m.start - 1) \o r.text,
                  data |-> r.data,
                  log  |-> Append(acc.log,
                             [start |-> m.start, end |-> m.end,
                              image_path |-> m.image_path,
                              old |-> m.group0, new |-> r.text,
                              branch |-> r.branch])])))

\* process_scss_css replacing the path of the first match in the whole
\* content (content.replace) instead of inside the match
process_scss_cssWholeContent(content, fsys, data) ==
    With(UrlSub(content, 1, fsys, [out |-> "", data |-> data, log |-> <<>>]), LAMBDA r :
      IF r.log = <<>> \/ r.log[1].branch # "src_only" THEN r
      ELSE [r EXCEPT !.out =
               replace(content, r.log[1].image_path,
                       get_optimal_image_info(
                           find_image_variants(fsys, r.log[1].image_path),
                           r.log[1].image_path).main_src)])

\* process_scss_css_file without the file I/O
process_scss_css(content, fsys, data) ==
    UrlSub(content, 1, fsys, [out |-> "", data |-> data, log |-> <<>>])

(***************************************************************************)
(* The state                                                               *)
(***************************************************************************)
VARIABLES
    fs,                     \* the image files under <project_root>/dev
    files,                  \* files_to_process: the source files, [kind, content]
    save_mode,              \* self.save_mode
    save_hash_in_attribute, \* self.save_hash_in_attribute
    images_data,            \* self.images_data: hash -> json_data
    artifact,               \* dev/assets/img/images_data.json
    pc,                     \* where run() stands
    idx,                    \* the index of the next file of the for loop
    runs,                   \* history: one record per run() started
    rk_pc,                  \* ranking of one reference: the step
    rk_ref,                 \*   the reference
    rk_variants,            \*   the result of find_image_variants
    rk_info                 \*   the result of get_optimal_image_info

vars == <<fs, files, save_mode, save_hash_in_attribute, images_data, artifact,
          pc, idx, runs, rk_pc, rk_ref, rk_variants, rk_info>>

engine_vars == <<files, save_mode, save_hash_in_attribute, images_data, artifact,
                 pc, idx, runs>>

rank_vars == <<rk_pc, rk_ref, rk_variants, rk_info>>

\* the empty dict
EmptyDict == [h \in {} |-> 0]

\* dev/assets/img and images_data.json before any run: the directory and the
\* file are absent; writes counts the times the file was opened for writing
NoArtifact == [dir |-> FALSE, exists |-> FALSE, data |-> EmptyDict, writes |-> 0]

(***************************************************************************)
(* Ranking one reference: find_image_variants, then get_optimal_image_info *)
(***************************************************************************)
\* sizes of the image files
Sizes == (1..MaxSize) \cup {30000, 50000}

\* the file system with the original and its two siblings at the given
\* sizes, Inf standing for "no such file"
PhotoFs(o, w, a) ==
    LET at == [p \in {"img/photo.jpg", "img/webp/photo.webp", "img/avif/photo.avif"} |->
                  IF p = "img/photo.jpg" THEN o
                  ELSE IF p = "img/webp/photo.webp" THEN w ELSE a]
    IN  [p \in {q \in DOMAIN at : at[q] # Inf} |-> at[p]]

RankRefs == {"img/photo.jpg", "./img/photo.jpg"}

InitEngineIdle ==
    /\ files = <<>>
    /\ save_mode = "None"
    /\ save_hash_in_attribute = FALSE
    /\ images_data = EmptyDict
    /\ artifact = NoArtifact
    /\ pc = "idle"
    /\ idx = 0
    /\ runs = <<>>

InitRankIdle ==
    /\ rk_pc = "idle"
    /\ rk_ref = ""
    /\ rk_variants = <<>>
    /\ rk_info = NoInfo

InitRank ==
    /\ \E o \in Sizes \cup {Inf}, w \in Sizes \cup {Inf}, a \in Sizes \cup {Inf} :
           fs = PhotoFs(o, w, a)
    /\ rk_ref \in RankRefs
    /\ rk_pc = "find"
    /\ rk_variants = <<>>
    /\ rk_info = NoInfo
    /\ InitEngineIdle

\* variants = self.find_image_variants(image_path)
FindVariants ==
    /\ rk_pc = "find"
    /\ rk_variants' = find_image_variants(fs, rk_ref)
    /\ rk_pc' = "rank"
    /\ UNCHANGED <<fs, rk_ref, rk_info>>
    /\ UNCHANGED engine_vars

\* optimal_info = self.get_optimal_image_info(variants, image_path)
RankVariants ==
    /\ rk_pc = "rank"
    /\ rk_info' = get_optimal_image_info(rk_variants, rk_ref)
    /\ rk_pc' = "ranked"
    /\ UNCHANGED <<fs, rk_ref, rk_variants>>
    /\ UNCHANGED engine_vars

NextRank == FindVariants \/ RankVariants

SpecRank == InitRank /\ [][NextRank]_vars

(***************************************************************************)
(* Ranking references one after the other on one image directory           *)
(***************************************************************************)
\* Rank answering from the accumulator when it holds a record under the
\* hash of the reference: the ranking of the path that was recorded
RankFromAccumulator(fsys, ref, data) ==
    IF get_image_hash(ref) \in DOMAIN data
    THEN With(data[get_image_hash(ref)].original_path, LAMBDA seen :
           [info |-> get_optimal_image_info(find_image_variants(fsys, seen), seen),
            data |-> data])
    ELSE With(get_optimal_image_info(find_image_variants(fsys, ref), ref), LAMBDA info :
           [info |-> info, data |-> Record(data, info)])

\* variants = self.find_image_variants(image_path) followed by
\* optimal_info = self.get_optimal_image_info(variants, image_path), which
\* also stores the record in the accumulator
Rank(fsys, ref, data) ==
    With(get_optimal_image_info(find_image_variants(fsys, ref), ref), LAMBDA info :
      [info |-> info, data |-> Record(data, info)])

InitRerank ==
    /\ \E o \in Sizes \cup {Inf}, w \in Sizes \cup {Inf}, a \in Sizes \cup {Inf} :
           fs = PhotoFs(o, w, a)
    /\ files = <<>>
    /\ save_mode = "None"
    /\ save_hash_in_attribute = FALSE
    /\ images_data = EmptyDict
    /\ artifact = NoArtifact
    /\ pc = "rank"
    /\ idx = 0
    /\ runs = <<>>
    /\ InitRankIdle

\* one more reference is ranked; runs keeps the reference and the result
RankReference ==
    /\ pc = "rank"
    /\ Len(runs) < MaxRanks
    /\ \E ref \in RankRefs :
          /\ runs' = Append(runs, [ref |-> ref, info |-> Rank(fs, ref, images_data).info])
          /\ images_data' = Rank(fs, ref, images_data).data
    /\ UNCHANGED <<fs, files, save_mode, save_hash_in_attribute, artifact, pc, idx>>
    /\ UNCHANGED rank_vars

NextRerank == RankReference

SpecRerank == InitRerank /\ [][NextRerank]_vars

(***************************************************************************)
(* The engine: run() over the source files of a project                    *)
(***************************************************************************)
\* the image files of the projects: img/a.jpg, its two siblings, and a
\* webp file in a webp directory below the webp sibling's directory
ImageFs(o, w, a, n) ==
    LET at == [p \in {"img/a.jpg", "img/webp/a.webp", "img/avif/a.avif",
                      "img/webp/webp/a.webp"} |->
                  IF p = "img/a.jpg" THEN o
                  ELSE IF p = "img/webp/a.webp" THEN w
                  ELSE IF p = "img/avif/a.avif" THEN a ELSE n]
    IN  [p \in {q \in DOMAIN at : at[q] # Inf} |-> at[p]]

\* the states of the image directory the projects are run against
ImageFsSet ==
    { ImageFs(Inf, Inf, Inf, Inf),   \* no image at all
      ImageFs(2, Inf, Inf, Inf),     \* the original alone
      ImageFs(2, 1, Inf, Inf),       \* a lighter webp sibling, no avif sibling
      ImageFs(2, 2, Inf, Inf),       \* a webp sibling as heavy as the original
      ImageFs(2, 3, 1, Inf),         \* a heavier webp and a lighter avif sibling
      ImageFs(3, 2, 2, Inf),         \* two lighter siblings of equal size
      ImageFs(3, 2, Inf, 1) }        \* a still lighter webp below the webp sibling

Html(content) == [kind |-> "html", content |-> content]
Pug(content)  == [kind |-> "pug", content |-> content]
Scss(content) == [kind |-> "scss", content |-> content]

\* the source files of the projects
HtmlPlain     == Html("<p>x</p>\n  <img class=\"c\" src=\"img/a.jpg\" alt=\"t\">\n<p>y</p>")
HtmlMultiline == Html("<div>\n<IMG\n   SRC='./img/a.jpg'\n   alt=\"t\"\n>z</div>")
HtmlMarked    == Html("<img src=\"img/a.jpg\" data-webp-src=\"img/webp/a.webp\" alt=\"t\"> <b>k</b>")
HtmlSvg       == Html("<img src=\"img/i.svg\" alt=\"v\"><img alt=\"t\" src=\"img/a.jpg\">")
PugPlain      == Pug("div\n  img(src=\"img/a.jpg\" alt=\"t\")\n  p x")
PugMultiline  == Pug("img(\n  src=\"img/a.jpg\"\n  alt=\"t\"\n)\np y")
PugSrcLast    == Pug("  img(\n    alt=\"t\" src='img/a.jpg')\n  p y")
PugSvg        == Pug("img(src=\"img/i.svg\")\nimg(src=\"img/a.jpg\")\np z")
PugMarked     == Pug("img(src=\"img/a.jpg\" data-avif-src=\"img/avif/a.avif\")")
PugParen      == Pug("img(src=\"img/a.jpg\" alt=\"f(x)\")\np z")
ScssPlain     == Scss("/* img/a.jpg */\n.a { background: url(\"img/a.jpg\"); }\n.b { color: red; }")
ScssSvg       == Scss(".v { background: url(img/i.svg); }\n.a { background: URL(img/a.jpg) }")

\* the projects: each is the list files_to_process of its runs
Projects ==
    { <<HtmlPlain>>, <<HtmlMarked>>, <<HtmlSvg>>,
      <<PugPlain>>, <<PugMultiline>>, <<PugSvg>>, <<PugMarked>>, <<PugParen>>,
      <<ScssSvg>>,
      <<ScssPlain, HtmlMultiline, PugSrcLast>> }

\* the answers to get_save_mode_choice and get_hash_attribute_choice: the
\* hash question is asked only when JSON is saved
ModeChoices ==
    { <<"data_attributes", FALSE>>, <<"json", FALSE>>, <<"json", TRUE>>,
      <<"both", FALSE>>, <<"both", TRUE>> }

\* a reference written with backslashes
HtmlBackslash == Html("<img src=\"img\\a.jpg\" alt=\"t\">")

\* an img( construct without src and without ')' up to the end of the file
PugOpen == Pug("p a\n  img(\n    alt=\"t\"")

\* an element whose data-src attribute precedes its src attribute
HtmlDataSrc == Html("<img data-src=\"img/a.jpg\" src=\"img/i.svg\">")

\* two references that differ by leading dots: to the parent directory and
\* to the image directory
HtmlDotDot == Html("<img src=\"../img/a.jpg\" alt=\"u\"><img src=\"img/a.jpg\" alt=\"t\">")

\* projects that are run against an image directory of their own
ProbeCases ==
    { \* the file dev/img\a.jpg: on POSIX the backslash is part of the name
      [files |-> <<HtmlBackslash>>, fs |-> [p \in {"img\\a.jpg"} |-> 2]],
      [files |-> <<PugOpen>>, fs |-> ImageFs(2, Inf, Inf, Inf)],
      [files |-> <<HtmlDataSrc>>, fs |-> ImageFs(2, 1, Inf, Inf)],
      [files |-> <<HtmlDotDot>>, fs |-> ImageFs(2, 1, Inf, Inf)] }

Init ==
    /\ \/ fs \in ImageFsSet /\ files \in Projects
       \/ \E c \in ProbeCases : fs = c.fs /\ files = c.files
    /\ save_mode = "None"
    /\ save_hash_in_attribute = FALSE
    /\ images_data = EmptyDict
    /\ artifact = NoArtifact
    /\ pc = "start"
    /\ idx = 0
    /\ runs = <<>>
    /\ InitRankIdle

\* process_file: the rewriter of the file's kind, on its content
process_file(file, fsys, mode, hash_in_attribute, data) ==
    IF file.kind = "html"
    THEN process_html_php(file.content, fsys, mode, hash_in_attribute, data)
    ELSE IF file.kind = "pug"
    THEN process_pug(file.content, fsys, mode, hash_in_attribute, data)
    ELSE process_scss_css(file.content, fsys, data)

\* StartRun without "self.images_data = {}"
StartRunKeepsData ==
    /\ pc = "start"
    /\ Len(runs) < MaxRuns
    /\ \E choice \in ModeChoices :
          /\ save_mode' = choice[1]
          /\ save_hash_in_attribute' = choice[2]
          /\ runs' = Append(runs, [save_mode |-> choice[1], save_hash |-> choice[2],
                                   before |-> files, results |-> <<>>])
    /\ idx' = 1
    /\ pc' = IF files = <<>> THEN "exit" ELSE "files"
    /\ UNCHANGED <<fs, files, artifact, images_data>>
    /\ UNCHANGED rank_vars

\* run() up to the for loop: the menus are answered (every file type is
\* selected), the files are found, the accumulator is cleared
StartRun ==
    /\ pc = "start"
    /\ Len(runs) < MaxRuns
    /\ \E choice \in ModeChoices :
          /\ save_mode' = choice[1]
          /\ save_hash_in_attribute' = choice[2]
          /\ runs' = Append(runs, [save_mode |-> choice[1], save_hash |-> choice[2],
                                   before |-> files, results |-> <<>>])
    /\ images_data' = IF files = <<>> THEN images_data ELSE EmptyDict
    /\ idx' = 1
    /\ pc' = IF files = <<>> THEN "exit" ELSE "files"
    /\ UNCHANGED <<fs, files, artifact>>
    /\ UNCHANGED rank_vars

\* WriteBack writing the file and returning True whether or not the text
\* changed
WriteBackAlways(r) ==
    /\ files' = [files EXCEPT ![idx].content = r.out]
    /\ images_data' = r.data
    /\ runs' = [runs EXCEPT ![Len(runs)].results =
                   Append(@, [kind |-> files[idx].kind,
                              input |-> files[idx].content,
                              output |-> r.out,
                              wrote |-> TRUE,
                              returned |-> TRUE,
                              log |-> r.log])]

\* the end of a process_*_file call whose rewriter gave r: the file is
\* written if the text changed, and the call returns whether it was
WriteBack(r) ==
    /\ files' = [files EXCEPT ![idx].content = IF r.out # @ THEN r.out ELSE @]
    /\ images_data' = r.data
    /\ runs' = [runs EXCEPT ![Len(runs)].results =
                   Append(@, [kind |-> files[idx].kind,
                              input |-> files[idx].content,
                              output |-> r.out,
                              wrote |-> r.out # files[idx].content,
                              returned |-> r.out # files[idx].content,
                              log |-> r.log])]

\* one iteration of "for file_path in files_to_process": process_file reads
\* the file, rewrites it, writes it back if the text changed and returns
\* whether it did
ProcessFile ==
    /\ pc = "files"
    /\ idx <= Len(files)
    /\ WriteBack(process_file(files[idx], fs, save_mode, save_hash_in_attribute,
                              images_data))
    /\ idx' = idx + 1
    /\ pc' = IF idx = Len(files) THEN "flush" ELSE "files"
    /\ UNCHANGED <<fs, save_mode, save_hash_in_attribute, artifact>>
    /\ UNCHANGED rank_vars

\* save_images_json adding the accumulator to the records already in the file
save_images_jsonMerge(data, old_artifact) ==
    IF data = EmptyDict THEN old_artifact
    ELSE [dir |-> TRUE, exists |-> TRUE,
          data |-> [h \in DOMAIN old_artifact.data \cup DOMAIN data |->
                       IF h \in DOMAIN data THEN data[h] ELSE old_artifact.data[h]],
          writes |-> old_artifact.writes + 1]

\* save_images_json without the early return on an empty accumulator
save_images_jsonAlways(data, old_artifact) ==
    [dir |-> TRUE, exists |-> TRUE, data |-> data, writes |-> old_artifact.writes + 1]

\* save_images_json: nothing is done when the accumulator is empty;
\* otherwise the directory is made and the file is opened for writing and
\* takes the accumulator as its whole content
save_images_json(data, old_artifact) ==
    IF data = EmptyDict THEN old_artifact
    ELSE [dir |-> TRUE, exists |-> TRUE, data |-> data,
          writes |-> old_artifact.writes + 1]

\* the end of run(): "if self.should_save_json(): self.save_images_json()"
Flush ==
    /\ pc = "flush"
    /\ artifact' = IF should_save_json(save_mode)
                   THEN save_images_json(images_data, artifact) ELSE artifact
    /\ pc' = "menu"
    /\ UNCHANGED <<fs, files, save_mode, save_hash_in_attribute, images_data, idx, runs>>
    /\ UNCHANGED rank_vars

\* show_continue_menu, choice 1: self.run() again
RunAgain ==
    /\ pc = "menu"
    /\ Len(runs) < MaxRuns
    /\ pc' = "start"
    /\ UNCHANGED <<fs, files, save_mode, save_hash_in_attribute, images_data, artifact,
                   idx, runs>>
    /\ UNCHANGED rank_vars

\* show_continue_menu, choice 2
Quit ==
    /\ pc = "menu"
    /\ pc' = "exit"
    /\ UNCHANGED <<fs, files, save_mode, save_hash_in_attribute, images_data, artifact,
                   idx, runs>>
    /\ UNCHANGED rank_vars

Next == StartRun \/ ProcessFile \/ Flush \/ RunAgain \/ Quit

Spec == Init /\ [][Next]_vars

(***************************************************************************)
(* The engine with file I/O failures                                       *)
(***************************************************************************)
\* what can go wrong with a source file inside a process_*_file call: the
\* open(file_path, 'r') or the read raises, the open(file_path, 'w') raises,
\* or f.write raises after the open has truncated the file
Faults == {"read", "open_write", "write"}

\* the number of process_*_file calls that ended in their except branch
FaultCount ==
    Cardinality({<<q, j>> \in (1..Len(runs)) \X (1..Len(files)) :
                    /\ j <= Len(runs[q].results)
                    /\ "failed" \in DOMAIN runs[q].results[j]})

\* the except branch of a process_*_file call: the exception is printed and
\* the call returns False. A failed read leaves the file and the accumulator
\* as they were; a failed write happens after the rewriter has run, so the
\* accumulator holds its records, and the file is as it was (open_write) or
\* truncated (write).
FileFails(fault, r) ==
    /\ fault # "read" => r.out # files[idx].content
    /\ files' = [files EXCEPT ![idx].content = IF fault = "write" THEN "" ELSE @]
    /\ images_data' = IF fault = "read" THEN images_data ELSE r.data
    /\ runs' = [runs EXCEPT ![Len(runs)].results =
                   Append(@, [kind |-> files[idx].kind,
                              input |-> files[idx].content,
                              output |-> IF fault = "read" THEN files[idx].content ELSE r.out,
                              wrote |-> FALSE,
                              returned |-> FALSE,
                              log |-> IF fault = "read" THEN <<>> ELSE r.log,
                              failed |-> fault])]

\* ProcessFileFails with the exception leaving process_file and run()
ProcessFileFailsAborts ==
    /\ pc = "files"
    /\ idx <= Len(files)
    /\ FaultCount < MaxFaults
    /\ \E fault \in Faults :
          FileFails(fault, process_file(files[idx], fs, save_mode,
                                        save_hash_in_attribute, images_data))
    /\ idx' = idx
    /\ pc' = "exit"
    /\ UNCHANGED <<fs, save_mode, save_hash_in_attribute, artifact>>
    /\ UNCHANGED rank_vars

\* one iteration of "for file_path in files_to_process" whose process_file
\* call fails on the file: False comes back and the loop goes on
ProcessFileFails ==
    /\ pc = "files"
    /\ idx <= Len(files)
    /\ FaultCount < MaxFaults
    /\ \E fault \in Faults :
          FileFails(fault, process_file(files[idx], fs, save_mode,
                                        save_hash_in_attribute, images_data))
    /\ idx' = idx + 1
    /\ pc' = IF idx = Len(files) THEN "flush" ELSE "files"
    /\ UNCHANGED <<fs, save_mode, save_hash_in_attribute, artifact>>
    /\ UNCHANGED rank_vars

\* the projects and image directories the failures are tried on
FaultProjects == { <<ScssPlain, HtmlMultiline, PugSrcLast>>, <<HtmlPlain>> }

FaultFsSet == { ImageFs(2, 1, Inf, Inf) }

InitFaults ==
    /\ fs \in FaultFsSet
    /\ files \in FaultProjects
    /\ save_mode = "None"
    /\ save_hash_in_attribute = FALSE
    /\ images_data = EmptyDict
    /\ artifact = NoArtifact
    /\ pc = "start"
    /\ idx = 0
    /\ runs = <<>>
    /\ InitRankIdle

NextFaults == StartRun \/ ProcessFile \/ ProcessFileFails \/ Flush \/ RunAgain \/ Quit

SpecFaults == InitFaults /\ [][NextFaults]_vars

(***************************************************************************)
(* Properties of the ranking (SpecRank)                                    *)
(***************************************************************************)
\* a reference whose original exists has been resolved and ranked
Ranked == rk_pc = "ranked" /\ ~rk_info.empty

KnownFormats == {"original", "webp", "avif"}

\* the json_formats entry of a format
FormatEntry(info, format_name) ==
    info.formats[CHOOSE k \in 1..Len(info.formats) : info.formats[k].name = format_name]

\* the value of data-<format>-priority among the data attributes
PriorityAttr(info, format_name) ==
    DictGet(info.data_attributes, "data-" \o format_name \o "-priority", "")

\* the size on disk of the file a path of the result stands for
SizeOnDisk(path) == fs[lstrip(path, DotSlash)]

SiblingExists(format_name) ==
    IF format_name = "webp" THEN "img/webp/photo.webp" \in DOMAIN fs
    ELSE "img/avif/photo.avif" \in DOMAIN fs

\* C1: priority totality. Once a reference whose original exists is ranked,
\* exactly the three known formats carry a priority, in the JSON breakdown
\* and in the data attributes alike, and the priorities are exactly 1, 2, 3.
C1_PriorityTotality ==
    Ranked =>
        /\ Len(rk_info.formats) = 3
        /\ {rk_info.formats[k].name : k \in 1..Len(rk_info.formats)} = KnownFormats
        /\ {rk_info.formats[k].priority : k \in 1..Len(rk_info.formats)} = {1, 2, 3}
        /\ {PriorityAttr(rk_info, f) : f \in KnownFormats} = {"1", "2", "3"}
        /\ Len(rk_info.data_attributes) = 7

\* a ranked reference with both siblings on disk, two of the three files
\* having the same size
C1_Witness ==
    /\ Ranked
    /\ SiblingExists("webp") /\ SiblingExists("avif")
    /\ fs["img/webp/photo.webp"] = fs["img/avif/photo.avif"]

\* C2: main selection. main_src (first sort) is the path of the format with
\* priority 1 (second sort), and that format exists on disk.
C2_MainIsRankOne ==
    Ranked =>
        /\ rk_info.main_src = FormatEntry(rk_info, rk_info.formats[1].name).src
        /\ rk_info.formats[1].priority = 1
        /\ rk_info.formats[1].exists
        /\ lstrip(rk_info.main_src, DotSlash) \in DOMAIN fs
        /\ \E f \in KnownFormats :
              /\ PriorityAttr(rk_info, f) = "1"
              /\ DictGet(rk_info.data_attributes, "data-" \o f \o "-src", "") = rk_info.main_src

\* a ranked reference whose webp sibling is as large as the original and
\* whose avif sibling is larger
C2_Witness ==
    /\ Ranked
    /\ SiblingExists("webp") /\ SiblingExists("avif")
    /\ fs["img/webp/photo.webp"] = fs["img/photo.jpg"]
    /\ fs["img/avif/photo.avif"] > fs["img/photo.jpg"]

\* C3: ranking order. A smaller existing variant ranks before a larger one,
\* every existing variant ranks before every missing one, and no existing
\* variant is smaller than main.
C3_RankingOrder ==
    Ranked =>
        /\ \A a \in KnownFormats, b \in KnownFormats :
              LET ea == FormatEntry(rk_info, a)
                  eb == FormatEntry(rk_info, b)
              IN  /\ (ea.exists /\ eb.exists /\ SizeOnDisk(ea.src) < SizeOnDisk(eb.src))
                        => ea.priority < eb.priority
                  /\ (ea.exists /\ ~eb.exists) => ea.priority < eb.priority
        /\ \A a \in KnownFormats :
              FormatEntry(rk_info, a).exists
                 => SizeOnDisk(rk_info.main_src) <= SizeOnDisk(FormatEntry(rk_info, a).src)
        /\ \A a \in KnownFormats :
              FormatEntry(rk_info, a).exists
                 <=> (a = "original" \/ SiblingExists(a))

\* a ranked reference whose avif sibling is smaller than the original and
\* whose webp sibling is missing
C3_Witness ==
    /\ Ranked
    /\ ~SiblingExists("webp") /\ SiblingExists("avif")
    /\ fs["img/avif/photo.avif"] < fs["img/photo.jpg"]

ScenarioA ==
    /\ rk_ref = "img/photo.jpg"
    /\ fs = PhotoFs(50000, 30000, Inf)

\* C6: scenario A. Original 50000 bytes, webp sibling 30000 bytes, no avif
\* sibling: main is the webp sibling, priorities webp 1, original 2, avif 3,
\* and the avif entry is the synthesized path, not existing, size null.
C6_ScenarioA ==
    (ScenarioA /\ rk_pc = "ranked") =>
        /\ ~rk_info.empty
        /\ rk_variants = <<[name |-> "original", path |-> "img/photo.jpg", size |-> 50000],
                           [name |-> "webp", path |-> "img/webp/photo.webp", size |-> 30000]>>
        /\ rk_info.main_src = "img/webp/photo.webp"
        /\ rk_info.optimal_src = "img/webp/photo.webp"
        /\ FormatEntry(rk_info, "webp").priority = 1
        /\ FormatEntry(rk_info, "original").priority = 2
        /\ FormatEntry(rk_info, "avif").priority = 3
        /\ FormatEntry(rk_info, "avif").src = "img/avif/photo.avif"
        /\ ~FormatEntry(rk_info, "avif").exists
        /\ FormatEntry(rk_info, "avif").size_is_null
        /\ FormatEntry(rk_info, "webp").size = 30000
        /\ FormatEntry(rk_info, "original").size = 50000

\* scenario A has been ranked
C6_Witness == ScenarioA /\ rk_pc = "ranked" /\ rk_info.main_src = "img/webp/photo.webp"

(***************************************************************************)
(* Properties of the engine (Spec)                                         *)
(***************************************************************************)
\* the run in progress, or the last one
CurrentRun == runs[Len(runs)]

\* a file has been processed in the current run
Processed == runs # <<>> /\ CurrentRun.results # <<>>

\* what the latest call of process_file read, did and wrote
LastResult == CurrentRun.results[Len(CurrentRun.results)]

\* C7 as claimed: a run in mode data_attributes that follows a run in mode
\* data_attributes changes no source file: every file it has processed was
\* left as it was read, not written, and reported as unchanged.
C7_SecondRunNoDiff ==
    \A k \in 2..Len(runs) :
        (runs[k].save_mode = "data_attributes" /\ runs[k - 1].save_mode = "data_attributes")
        => \A j \in 1..Len(runs[k].results) :
              /\ runs[k].results[j].output = runs[k].results[j].input
              /\ ~runs[k].results[j].wrote
              /\ ~runs[k].results[j].returned

\* src="...svg" or src='...svg' (any case) at position q of a text
SvgSrcAt(s, q) ==
    /\ StartsAtCI(s, q, "src=")
    /\ q + 4 <= Len(s)
    /\ Char(s, q + 4) \in Quotes
    /\ LET r == FirstOf(s, Quotes, q + 5)
       IN  r > 0 /\ endswith(lower(SubSeq(s, q + 5, r - 1)), ".svg")

HasSvgSrc(s) == \E q \in 1..Len(s) : SvgSrcAt(s, q)

\* the elements, blocks or url() tokens of a source text whose reference
\* ends in .svg: <img ...> elements up to their first '>', the img( lines
\* of a Pug text, url(...) tokens up to their ')'
SvgFragments(kind, content) ==
    IF kind = "html"
    THEN {SubSeq(content, p, FirstOf(content, {">"}, p)) :
             p \in {x \in 1..Len(content) :
                      /\ StartsAtCI(content, x, "<img")
                      /\ FirstOf(content, {">"}, x) > 0
                      /\ HasSvgSrc(SubSeq(content, x, FirstOf(content, {">"}, x)))}}
    ELSE IF kind = "pug"
    THEN {line \in {split(content, "\n")[k] : k \in 1..Len(split(content, "\n"))} :
             Contains(line, "img(") /\ HasSvgSrc(line)}
    ELSE {SubSeq(content, p, FirstOf(content, {")"}, p)) :
             p \in {x \in 1..Len(content) :
                      /\ StartsAtCI(content, x, "url(")
                      /\ FirstOf(content, {")"}, x) > 0
                      /\ endswith(lower(rstrip(SubSeq(content, x, FirstOf(content, {")"}, x) - 1),
                                               Quotes)), ".svg")}}

\* C8 as claimed: no locator takes a reference ending in .svg, and every
\* element, block or url() token whose reference ends in .svg is still in
\* the text, unchanged, after the file has been processed.
C8_VectorExclusion ==
    Processed =>
        /\ \A j \in 1..Len(LastResult.log) :
              ~endswith(lower(LastResult.log[j].image_path), ".svg")
        /\ \A frag \in SvgFragments(LastResult.kind, LastResult.input) :
              IF LastResult.kind = "pug"
              THEN \E k \in 1..Len(split(LastResult.output, "\n")) :
                      split(LastResult.output, "\n")[k] = frag
              ELSE Contains(LastResult.output, frag)

\* C9 as claimed: an <img> element matched by the locator that carries a
\* data-webp-src marker is returned unchanged, in every save mode.
C9_MarkedElementUnchanged ==
    (Processed /\ LastResult.kind = "html") =>
        \A j \in 1..Len(LastResult.log) :
            Contains(LastResult.log[j].old, "data-webp-src=")
               => LastResult.log[j].new = LastResult.log[j].old

\* C9 amended: in the modes that write annotations (data_attributes, both)
\* an <img> element matched by the locator whose span carries a
\* data-webp-src marker is returned unchanged, whatever variants exist.
C9_MarkedElementUnchangedInline ==
    (Processed /\ LastResult.kind = "html" /\ should_add_data_attributes(save_mode)) =>
        \A j \in 1..Len(LastResult.log) :
            Contains(LastResult.log[j].old, "data-webp-src=")
               => /\ LastResult.log[j].new = LastResult.log[j].old
                  /\ Contains(LastResult.output, LastResult.log[j].old)

\* an element carrying the marker, whose src has a lighter webp sibling on
\* disk, has been processed in an annotating mode for the first time
C9_Witness ==
    /\ Processed /\ LastResult.kind = "html" /\ should_add_data_attributes(save_mode)
    /\ Len(runs) = 1
    /\ LastResult.input = HtmlMarked.content
    /\ LastResult.log # <<>>
    /\ LastResult.log[1].image_path = "img/a.jpg"
    /\ fs = ImageFs(2, 1, Inf, Inf)

\* in gives way to out outside the spans only: the text between the spans
\* (before the first, after the last) is in out, in the same order, with
\* some text in the place of each span. Texts are strings or lists of lines.
RECURSIVE FrameFrom(_, _, _, _, _, _)
FrameFrom(in, out, spans, k, pi, po) ==
    IF k > Len(spans)
    THEN SubSeq(in, pi, Len(in)) = SubSeq(out, po, Len(out))
    ELSE LET gap == SubSeq(in, pi, spans[k][1] - 1)
         IN  /\ SubSeq(out, po, po + Len(gap) - 1) = gap
             /\ \E q \in (po + Len(gap))..(Len(out) + 1) :
                   FrameFrom(in, out, spans, k + 1, spans[k][2] + 1, q)

\* the spans of the located fragments of the latest file: character
\* positions of the matches, or line numbers of the scanned Pug blocks
LocatedSpans(result) ==
    IF result.kind = "pug"
    THEN LET blocks == SelectSeq(result.log, LAMBDA e : e.is_block)
         IN  [k \in 1..Len(blocks) |-> <<blocks[k].first, blocks[k].last>>]
    ELSE [k \in 1..Len(result.log) |-> <<result.log[k].start, result.log[k].end>>]

\* C10: rewriter frame. Whatever a file's processing changes lies inside
\* the located fragments: the characters outside the matched <img ...>
\* elements and url(...) tokens, and the lines outside the scanned img(
\* blocks, are the same, in the same order, before and after.
C10_RewriterFrame ==
    Processed =>
        IF LastResult.kind = "pug"
        THEN FrameFrom(split(LastResult.input, "\n"), split(LastResult.output, "\n"),
                       LocatedSpans(LastResult), 1, 1, 1)
        ELSE FrameFrom(LastResult.input, LastResult.output,
                       LocatedSpans(LastResult), 1, 1, 1)

\* the three files of a project have been rewritten in one run, each with
\* text before and after its located fragment
C10_Witness ==
    /\ runs # <<>>
    /\ Len(CurrentRun.results) = 3
    /\ \A j \in 1..3 : CurrentRun.results[j].wrote
    /\ {CurrentRun.results[j].kind : j \in 1..3} = {"html", "pug", "scss"}
    /\ Contains(CurrentRun.results[1].output, "/* img/a.jpg */")

\* C11 as claimed: the scan of a Pug img( construct stops at the line that
\* holds its closing delimiter: in a block whose reference was found, no
\* line before the line of the src match holds a ')'.
C11_PugScanStopsAtDelimiter ==
    (Processed /\ LastResult.kind = "pug") =>
        \A j \in 1..Len(LastResult.log) :
            (LastResult.log[j].is_block /\ LastResult.log[j].has_src)
            => \A k \in 1..(Len(LastResult.log[j].old) - 1) :
                  ~Contains(LastResult.log[j].old[k], ")")

\* the path a located reference is replaced by: main_src of its ranking
MainSrcOf(fsys, image_path) ==
    get_optimal_image_info(find_image_variants(fsys, image_path), image_path).main_src

\* line without its character at position p
DropChar(line, p) == SubSeq(line, 1, p - 1) \o SubSeq(line, p + 1, Len(line))

\* a line made of white space followed by text
IsIndented(line, text) ==
    /\ endswith(line, text)
    /\ lstrip(SubSeq(line, 1, Len(line) - Len(text)), Whitespace) = ""

\* line k of a logged Pug block after "img_block_lines[k].replace(image_path,
\* new_src)" alone
ReplacedLine(e, k) == replace(e.old[k], e.image_path, MainSrcOf(fs, e.image_path))

\* C12 as claimed: an annotated Pug block keeps its lines, with the
\* reference replaced and exactly one character removed, a ')'; after them
\* come the marker lines, and a last line that holds the ')' alone.
C12_PugBlockRewrite ==
    (Processed /\ LastResult.kind = "pug") =>
        \A j \in 1..Len(LastResult.log) :
            LastResult.log[j].branch = "annotated" =>
                /\ Len(LastResult.log[j].new) > Len(LastResult.log[j].old) + 1
                /\ IsIndented(LastResult.log[j].new[Len(LastResult.log[j].new)], ")")
                /\ \A m \in (Len(LastResult.log[j].old) + 1)..(Len(LastResult.log[j].new) - 1) :
                      /\ Contains(LastResult.log[j].new[m], "data-")
                      /\ ~Contains(LastResult.log[j].new[m], ")")
                /\ \E k \in 1..Len(LastResult.log[j].old) :
                      /\ \E p \in 1..Len(ReplacedLine(LastResult.log[j], k)) :
                            /\ Char(ReplacedLine(LastResult.log[j], k), p) = ")"
                            /\ LastResult.log[j].new[k]
                                 = DropChar(ReplacedLine(LastResult.log[j], k), p)
                      /\ \A m \in 1..Len(LastResult.log[j].old) :
                            m # k => LastResult.log[j].new[m]
                                       = ReplacedLine(LastResult.log[j], m)

\* the text of the old or new side of a log entry: the lines of a Pug block
\* joined, the element of a tag-attribute text as it is
EntryText(kind, x) == IF kind = "pug" THEN join(x, "\n") ELSE x

\* the full marker set: src and priority of each known format, and the
\* extension marker
FullMarkerSet ==
    {"data-original-src=", "data-original-priority=",
     "data-webp-src=", "data-webp-priority=",
     "data-avif-src=", "data-avif-priority=",
     "data-original-ext="}

\* the log entry holds a located raster reference whose original exists
Annotatable(e) ==
    /\ e.image_path # ""
    /\ ~endswith(lower(e.image_path), ".svg")
    /\ Exists(fs, lstrip(e.image_path, DotSlash))

\* C13 as claimed: in mode data_attributes or both, every located reference
\* of an HTML/PHP or Pug file that is not annotated yet (the file holds no
\* marker) and whose original exists is written back with the full marker
\* set.
C13_CompleteMarkerSet ==
    (/\ Processed
     /\ LastResult.kind \in {"html", "pug"}
     /\ should_add_data_attributes(CurrentRun.save_mode)
     /\ ~HasMarker(LastResult.input)) =>
        \A j \in 1..Len(LastResult.log) :
            Annotatable(LastResult.log[j]) =>
                \A marker \in FullMarkerSet :
                    Contains(EntryText(LastResult.kind, LastResult.log[j].new), marker)

\* where marker starts in text, 0 if it does not occur
MarkerPos(text, marker) == FindFrom(text, marker, 1)

\* the number written as the value of the priority marker of a format
WrittenPriority(text, format) ==
    int(Char(text, MarkerPos(text, "data-" \o format \o "-priority=")
                   + Len("data-" \o format \o "-priority=") + 1))

\* the names of FullMarkerSet that are src or priority markers
SrcPriorityMarkers == FullMarkerSet \ {"data-original-ext="}

\* C14 as claimed: the markers written for an element come by ascending
\* priority, the src marker of a format immediately before its priority
\* marker, and data-original-ext comes after all src and priority markers.
C14_MarkerOrdering ==
    (/\ Processed
     /\ LastResult.kind \in {"html", "pug"}
     /\ should_add_data_attributes(CurrentRun.save_mode)) =>
        \A j \in 1..Len(LastResult.log) :
            LastResult.log[j].branch = "annotated" =>
                /\ \A f \in {"original", "webp", "avif"} :
                      /\ 0 < MarkerPos(EntryText(LastResult.kind, LastResult.log[j].new),
                                       "data-" \o f \o "-src=")
                      /\ MarkerPos(EntryText(LastResult.kind, LastResult.log[j].new),
                                   "data-" \o f \o "-src=")
                           < MarkerPos(EntryText(LastResult.kind, LastResult.log[j].new),
                                       "data-" \o f \o "-priority=")
                      /\ \A m \in FullMarkerSet :
                            ~(/\ MarkerPos(EntryText(LastResult.kind, LastResult.log[j].new),
                                           "data-" \o f \o "-src=")
                                   < MarkerPos(EntryText(LastResult.kind, LastResult.log[j].new), m)
                              /\ MarkerPos(EntryText(LastResult.kind, LastResult.log[j].new), m)
                                   < MarkerPos(EntryText(LastResult.kind, LastResult.log[j].new),
                                               "data-" \o f \o "-priority="))
                /\ \A f, g \in {"original", "webp", "avif"} :
                      WrittenPriority(EntryText(LastResult.kind, LastResult.log[j].new), f)
                        < WrittenPriority(EntryText(LastResult.kind, LastResult.log[j].new), g)
                      => MarkerPos(EntryText(LastResult.kind, LastResult.log[j].new),
                                   "data-" \o f \o "-src=")
                           < MarkerPos(EntryText(LastResult.kind, LastResult.log[j].new),
                                       "data-" \o g \o "-src=")
                /\ \A m \in SrcPriorityMarkers :
                      MarkerPos(EntryText(LastResult.kind, LastResult.log[j].new), m)
                        < MarkerPos(EntryText(LastResult.kind, LastResult.log[j].new),
                                    "data-original-ext=")

\* every marker the rewriters can write into a source
InlineMarkers == FullMarkerSet \cup {"data-image-hash="}

\* the log entries of a run, over all its files, whose reference was
\* resolved: get_optimal_image_info was called for it
ResolvedEntries(run) ==
    {e \in UNION {{run.results[q].log[j] : j \in 1..Len(run.results[q].log)}
                     : q \in 1..Len(run.results)} :
        e.branch \in {"src_only", "annotated"}}

\* the hashes of the references a run has processed
ProcessedKeys(run) == {get_image_hash(e.image_path) : e \in ResolvedEntries(run)}

\* C15 as claimed: in save_mode json no file gains an inline marker,
\* data-image-hash included, whatever the hash choice; and the artifact
\* written at the end of the run holds one record per processed reference,
\* under the hash of that reference.
C15_SidecarOnly ==
    /\ (Processed /\ CurrentRun.save_mode = "json") =>
          \A m \in InlineMarkers :
              Contains(LastResult.output, m) => Contains(LastResult.input, m)
    /\ (pc = "menu" /\ save_mode = "json" /\ ProcessedKeys(CurrentRun) # {}) =>
          /\ artifact.exists
          /\ DOMAIN artifact.data = ProcessedKeys(CurrentRun)
          /\ \A h \in DOMAIN artifact.data : artifact.data[h].hash = h

\* C16 as claimed: after every run in mode json or both, a run that
\* recorded no reference included, images_data.json holds exactly the
\* records accumulated in that run.
C16_ArtifactReplacedEveryRun ==
    (pc = "menu" /\ should_save_json(save_mode)) =>
        /\ artifact.data = images_data
        /\ DOMAIN artifact.data = ProcessedKeys(CurrentRun)

\* C16 amended: after a run in mode json or both that recorded at least one
\* reference, images_data.json holds exactly the records accumulated in
\* that run, and none left over from the artifact of a previous run.
C16_ArtifactReplacedWhenRecorded ==
    (pc = "menu" /\ should_save_json(save_mode) /\ images_data # EmptyDict) =>
        /\ artifact.exists
        /\ artifact.data = images_data
        /\ DOMAIN artifact.data = ProcessedKeys(CurrentRun)

\* a second sidecar run has replaced the artifact of a first sidecar run
\* that held a record under another hash
C16_Witness ==
    /\ pc = "menu" /\ Len(runs) = 2
    /\ should_save_json(runs[1].save_mode) /\ should_save_json(save_mode)
    /\ artifact.writes = 2
    /\ ProcessedKeys(runs[1]) \ ProcessedKeys(runs[2]) # {}
    /\ DOMAIN artifact.data = ProcessedKeys(runs[2])

\* C17: when the accumulator is empty at the end of a run in mode json or
\* both, save_images_json leaves images_data.json and its directory as they
\* are: nothing is created, truncated or written.
C17_FlushEmptyIsNoOp ==
    [][(pc = "flush" /\ should_save_json(save_mode) /\ images_data = EmptyDict)
          => artifact' = artifact]_vars

\* a first run in a sidecar mode that located a reference and recorded
\* nothing has called save_images_json: there is no file and no directory
C17_Witness ==
    /\ pc = "menu" /\ Len(runs) = 1
    /\ should_save_json(save_mode)
    /\ images_data = EmptyDict
    /\ \E q \in 1..Len(CurrentRun.results) : CurrentRun.results[q].log # <<>>
    /\ ~artifact.dir /\ ~artifact.exists /\ artifact.writes = 0

\* C18: the accumulator is empty when a run starts on its files; the
\* artifact is written at most once per run, and only after every file was
\* processed; and the artifact a run writes holds records of references
\* that this run processed only.
C18_PerRunAccumulator ==
    /\ [](/\ (pc = "files" /\ idx = 1) => images_data = EmptyDict
          /\ artifact.writes <= Len(runs)
          /\ pc \in {"files", "flush"} => artifact.writes < Len(runs))
    /\ [][artifact' # artifact =>
             /\ pc = "flush" /\ pc' = "menu"
             /\ Len(CurrentRun.results) = Len(files)
             /\ artifact'.writes = artifact.writes + 1
             /\ DOMAIN artifact'.data \subseteq ProcessedKeys(CurrentRun)]_vars

\* a re-run through the continue menu in a sidecar mode has written the
\* artifact, after a run without sidecar that had accumulated a record
\* under a hash the re-run did not process
C18_Witness ==
    /\ pc = "menu" /\ Len(runs) = 2
    /\ ~should_save_json(runs[1].save_mode) /\ should_save_json(runs[2].save_mode)
    /\ ProcessedKeys(runs[1]) \ ProcessedKeys(runs[2]) # {}
    /\ artifact.writes = 1
    /\ DOMAIN artifact.data = ProcessedKeys(runs[2])

\* C19: a source file is written exactly when its rewritten text differs
\* from the text read, the process_* function returns True exactly when it
\* wrote, and the file then holds the rewritten text; otherwise the file
\* holds what it held.
C19_PersistOnlyOnChange ==
    Processed =>
        /\ LastResult.wrote <=> (LastResult.output # LastResult.input)
        /\ LastResult.returned <=> LastResult.wrote
        /\ files[Len(CurrentRun.results)].content =
              (IF LastResult.returned THEN LastResult.output ELSE LastResult.input)

\* a re-run has located a reference in a file the first run wrote, found
\* the rewritten text equal to the text read, and returned False
C19_Witness ==
    /\ Len(runs) = 2 /\ Processed
    /\ runs[1].results[1].wrote
    /\ LastResult.log # <<>>
    /\ \E j \in 1..Len(LastResult.log) : LastResult.log[j].image_path # ""
    /\ LastResult.output = LastResult.input
    /\ ~LastResult.wrote /\ ~LastResult.returned

\* C20: when the original of a located reference is not on disk,
\* find_image_variants gives the empty dict and the element, block or url()
\* token that holds the reference is written back as it was read, in every
\* dialect and save mode.
C20_ResolutionMiss ==
    Processed =>
        \A j \in 1..Len(LastResult.log) :
            (/\ LastResult.log[j].image_path # ""
             /\ ~Exists(fs, lstrip(LastResult.log[j].image_path, DotSlash)))
            => /\ find_image_variants(fs, LastResult.log[j].image_path) = <<>>
               /\ LastResult.log[j].new = LastResult.log[j].old

\* a file with a located raster reference was processed in an annotating
\* mode on a disk without the original: the rewriter took its
\* no-variants exit and the file was not written
C20_Witness ==
    /\ Processed
    /\ fs = ImageFs(Inf, Inf, Inf, Inf)
    /\ should_add_data_attributes(CurrentRun.save_mode)
    /\ \E j \in 1..Len(LastResult.log) :
          /\ LastResult.log[j].image_path = "img/a.jpg"
          /\ LastResult.log[j].branch = "missing"
    /\ ~LastResult.wrote

\* a process_*_file call of the current run ended in its except branch
FailedAt(j) == "failed" \in DOMAIN CurrentRun.results[j]

\* C21: a source file whose read or write fails is counted as not updated,
\* and the run goes on: every step of the file loop moves to the next file,
\* a run that reaches its end has processed every file, and the end-of-run
\* flush has written the accumulator.
C21_FileFailureIsolation ==
    /\ [](/\ runs # <<>> =>
                \A j \in 1..Len(CurrentRun.results) :
                    FailedAt(j) => (~CurrentRun.results[j].returned
                                    /\ ~CurrentRun.results[j].wrote)
          /\ pc \in {"flush", "menu"} => Len(CurrentRun.results) = Len(files)
          /\ (pc = "menu" /\ should_save_json(save_mode) /\ images_data # EmptyDict)
                => (artifact.exists /\ artifact.data = images_data))
    /\ [][/\ pc = "files" => (idx' = idx + 1 /\ pc' \in {"files", "flush"}
                              /\ Len(runs'[Len(runs)].results) = idx)
          /\ pc = "flush" => pc' = "menu"]_vars

\* the first of three files failed, the two others were processed and
\* written, and the sidecar was flushed at the end of the run
C21_Witness ==
    /\ pc = "menu" /\ Len(runs) = 1 /\ Len(files) = 3
    /\ FailedAt(1) /\ ~FailedAt(2) /\ ~FailedAt(3)
    /\ CurrentRun.results[2].wrote /\ CurrentRun.results[3].wrote
    /\ should_save_json(save_mode)
    /\ artifact.exists /\ artifact.writes = 1

\* C22 as claimed: a second run in save_mode json over the sources a first
\* run in save_mode json has rewritten changes no source file.
C22_SidecarRerunNoOp ==
    (/\ Len(runs) = 2
     /\ runs[1].save_mode = "json" /\ runs[2].save_mode = "json"
     /\ Processed) =>
        /\ LastResult.output = LastResult.input
        /\ ~LastResult.wrote

\* C23 as claimed: what a rewriter writes in place of an element, block or
\* url() token holds no backslash (no source text of the projects holds a
\* backslash outside its reference).
C23_NoBackslashWritten ==
    Processed =>
        \A j \in 1..Len(LastResult.log) :
            (/\ LastResult.log[j].branch \in {"src_only", "annotated"}
             /\ LastResult.log[j].new # LastResult.log[j].old)
            => ~Contains(EntryText(LastResult.kind, LastResult.log[j].new), "\\")

C25_PugScanForward ==
    (Processed /\ LastResult.kind = "pug") =>
        /\ LastResult.log # <<>>
        /\ LastResult.log[1].first = 1
        /\ LastResult.log[Len(LastResult.log)].last = Len(split(LastResult.input, "\n"))
        /\ \A j \in 1..Len(LastResult.log) :
              /\ LastResult.log[j].first <= LastResult.log[j].last
              /\ LastResult.log[j].old = SubSeq(split(LastResult.input, "\n"),
                                                LastResult.log[j].first,
                                                LastResult.log[j].last)
              /\ ~LastResult.log[j].is_block =>
                    LastResult.log[j].last = LastResult.log[j].first
              /\ j > 1 => LastResult.log[j].first = LastResult.log[j - 1].last + 1

\* the scan has run to the end of a file whose last img( construct has no
\* src and no closing delimiter
C25_Witness ==
    /\ Processed /\ LastResult.kind = "pug"
    /\ LastResult.input = PugOpen.content
    /\ Len(LastResult.log) = 2
    /\ LastResult.log[2].is_block /\ ~LastResult.log[2].has_src
    /\ LastResult.log[2].first = 2 /\ LastResult.log[2].last = 3
    /\ \A k \in 1..2 : ~Contains(LastResult.log[2].old[k], ")")

\* line k of a logged Pug block as the rewriter may leave it: as it was, or
\* with the reference replaced, or with that and the ')' taken out
KeptLine(e, k) ==
    IF e.branch \in {"src_only", "annotated"}
    THEN {ReplacedLine(e, k), rstrip(replace(ReplacedLine(e, k), ")", ""), Whitespace)}
    ELSE {e.old[k]}

\* C26 as claimed: the Pug rewriter neither drops nor duplicates a line:
\* what it writes for a step of its scan is the lines of that step in their
\* order, each with at most the reference replaced and the closing delimiter
\* removed, followed only by marker lines and the re-added ')' line.
C26_PugLineConservation ==
    (Processed /\ LastResult.kind = "pug") =>
        \A j \in 1..Len(LastResult.log) :
            /\ Len(LastResult.log[j].new) >= Len(LastResult.log[j].old)
            /\ \A k \in 1..Len(LastResult.log[j].old) :
                  k <= Len(LastResult.log[j].new)
                  => LastResult.log[j].new[k] \in KeptLine(LastResult.log[j], k)
            /\ \A k \in (Len(LastResult.log[j].old) + 1)..Len(LastResult.log[j].new) :
                  \/ Contains(LastResult.log[j].new[k], "data-")
                  \/ IsIndented(LastResult.log[j].new[k], ")")

\* the values of the data-image-hash markers of a source text
HashMarkers(text) ==
    {SubSeq(text, p + Len("data-image-hash=\""),
            FirstOf(text, {"\""}, p + Len("data-image-hash=\"")) - 1) :
        p \in {q \in 1..Len(text) : StartsAt(text, q, "data-image-hash=\"")}}

\* every run so far was in mode both with hash embedding
AllRunsBothWithHash ==
    \A q \in 1..Len(runs) : runs[q].save_mode = "both" /\ runs[q].save_hash

\* C27 as claimed: after runs in mode both with hash embedding, when a run
\* has written the artifact, every data-image-hash value in a source file
\* of the run has a record under that key in the artifact.
C27_HashMarkerHasRecord ==
    (/\ pc = "menu" /\ AllRunsBothWithHash
     /\ images_data # EmptyDict) =>
        \A q \in 1..Len(files) :
            HashMarkers(files[q].content) \subseteq DOMAIN artifact.data

\* the character before the src attribute that img_pattern matched in a tag
\* ("" when the attribute follows "<img" at once)
CharBeforeSrc(tag) ==
    With(ImgMatchAt(tag, 1).before_src, LAMBDA b :
      IF b = "" THEN "" ELSE Char(b, Len(b)))

\* C28 as claimed: the reference the tag-attribute locator takes from an
\* element is the value of the attribute named src: the src= that is
\* matched follows white space, it is not the tail of a longer attribute
\* name such as data-src.
C28_ReferenceIsSrcAttribute ==
    (Processed /\ LastResult.kind = "html") =>
        \A j \in 1..Len(LastResult.log) :
            CharBeforeSrc(LastResult.log[j].old) \in Whitespace

\* a reference with one leading "./" removed and backslashes converted
StripDotSlashOnce(image_path) ==
    replace(IF StartsAt(image_path, 1, "./") THEN From(image_path, 3) ELSE image_path,
            "\\", "/")

\* C29 as claimed: two references of a file whose forms differ after
\* removing one leading "./" and converting backslashes are looked up as
\* different files and get different sidecar keys.
C29_DistinctReferencesDistinctKeys ==
    Processed =>
        \A i, j \in 1..Len(LastResult.log) :
            StripDotSlashOnce(LastResult.log[i].image_path)
                # StripDotSlashOnce(LastResult.log[j].image_path)
            => /\ get_image_hash(LastResult.log[i].image_path)
                    # get_image_hash(LastResult.log[j].image_path)
               /\ lstrip(LastResult.log[i].image_path, DotSlash)
                    # lstrip(LastResult.log[j].image_path, DotSlash)

\* no existing sibling variant of the reference is strictly smaller than
\* the original, which exists
NoSmallerSibling(fsys, image_path) ==
    With(find_image_variants(fsys, image_path), LAMBDA variants :
      /\ variants # <<>>
      /\ \A k \in 2..Len(variants) : ~(variants[k].size < variants[1].size))

\* the visible path of what a rewriter wrote for a log entry is image_path:
\* the path its own locator finds in the new text, for a Pug block the
\* value of an attribute named src on one of its lines
VisiblePathIs(kind, new, image_path) ==
    IF kind = "html"
    THEN ImgMatchAt(new, 1).ok /\ ImgMatchAt(new, 1).image_path = image_path
    ELSE IF kind = "scss"
    THEN UrlMatchAt(new, 1).ok /\ UrlMatchAt(new, 1).image_path = image_path
    ELSE \E k \in 1..Len(new) : \E q \in 1..Len(new[k]) :
            /\ SrcAttrAt(new[k], q).ok /\ SrcAttrAt(new[k], q).path = image_path
            /\ q > 1 /\ Char(new[k], q - 1) \in Whitespace \cup {"("}

\* C30 as claimed: when no existing sibling variant is strictly smaller
\* than the original (equal sizes included), main is the reference exactly
\* as written, and the visible path of the element, block or url() is the
\* same after rewriting as before.
C30_NoGratuitousRewrite ==
    Processed =>
        \A j \in 1..Len(LastResult.log) :
            (/\ LastResult.log[j].branch \in {"src_only", "annotated"}
             /\ NoSmallerSibling(fs, LastResult.log[j].image_path))
            => /\ MainSrcOf(fs, LastResult.log[j].image_path)
                    = LastResult.log[j].image_path
               /\ VisiblePathIs(LastResult.kind, LastResult.log[j].new,
                                LastResult.log[j].image_path)

====
